---- MODULE Spec2Model ----
(***************************************************************************)
(* Model of dashboard.py: the Streamlit script that joins an appointment   *)
(* export (Aloha) with a case roster (Zoho) and renders a weekly           *)
(* cancellation pivot.                                                     *)
(*                                                                         *)
(* Representation                                                          *)
(*   - a Python string is a sequence of one-character strings;             *)
(*   - a nullable cell (NaN / NaT / None) is an option: <<>> is null and   *)
(*     <<v>> carries v;                                                    *)
(*   - a date is a day count since 1970-01-01, a timestamp a minute count  *)
(*     since that day's midnight, a number of hours an integer count of    *)
(*     minutes (1 hour = 60), so sums and differences are exact;           *)
(*   - a percentage is [kind, v] with kind "num" (v in hundredths of a     *)
(*     percent), "nan", "inf" or "-inf", the outcomes of float division.   *)
(***************************************************************************)
EXTENDS Integers, Sequences, FiniteSets, TLC

VARIABLES aloha_file, zoho_file, df_aloha, df, pivot_df, grand_totals, screen

vars == <<aloha_file, zoho_file, df_aloha, df, pivot_df, grand_totals, screen>>

----------------------------------------------------------------------------
(* Python values *)

Null == <<>>
Some(v) == <<v>>
isna(c) == c = <<>>
Val(c) == c[1]

\* The printable ASCII characters in code order, 32 (space) to 126 (~); the
\* double quote (34), the backslash (92) and the backtick (96) are spelled out.
Ascii ==
  <<" ", "!", "dquote", "#", "$", "%", "&", "'", "(", ")", "*", "+", ",", "-", ".", "/",
    "0", "1", "2", "3", "4", "5", "6", "7", "8", "9", ":", ";", "<", "=", ">", "?",
    "@", "A", "B", "C", "D", "E", "F", "G", "H", "I", "J", "K", "L", "M", "N", "O",
    "P", "Q", "R", "S", "T", "U", "V", "W", "X", "Y", "Z", "[", "backslash", "]", "^", "_",
    "backtick", "a", "b", "c", "d", "e", "f", "g", "h", "i", "j", "k", "l", "m", "n", "o",
    "p", "q", "r", "s", "t", "u", "v", "w", "x", "y", "z", "{", "|", "}", "~">>

OrdTable ==
  [c \in {Ascii[i] : i \in 1..Len(Ascii)} |->
     31 + (CHOOSE i \in 1..Len(Ascii) : Ascii[i] = c)]
Ord(c) == OrdTable[c]
Chr(n) == Ascii[n - 31]

\* str.lower(): A-Z (65..90) move to a-z, everything else stays.
LowerChar(c) == IF Ord(c) >= 65 /\ Ord(c) <= 90 THEN Chr(Ord(c) + 32) ELSE c
Lower(s) == [i \in 1..Len(s) |-> LowerChar(s[i])]

\* str.strip(): leading and trailing blanks removed.
RECURSIVE LStrip(_)
LStrip(s) == IF s # <<>> /\ Head(s) = " " THEN LStrip(Tail(s)) ELSE s
RECURSIVE RStrip(_)
RStrip(s) ==
  IF s # <<>> /\ s[Len(s)] = " " THEN RStrip(SubSeq(s, 1, Len(s) - 1)) ELSE s
Strip(s) == RStrip(LStrip(s))

\* Python's `p in s` on strings: p occurs in s as a contiguous run.
Contains(s, p) ==
  \E i \in 1..(Len(s) - Len(p) + 1) : SubSeq(s, i, i + Len(p) - 1) = p

\* str(n) of a non-negative int.
RECURSIVE Digits(_)
Digits(n) ==
  IF n < 10 THEN <<Chr(48 + n)>> ELSE Digits(n \div 10) \o <<Chr(48 + (n % 10))>>

\* Lexicographic order of strings by character code, as Python and pandas sort.
RECURSIVE StrLess(_, _)
StrLess(a, b) ==
  IF b = <<>> THEN FALSE
  ELSE IF a = <<>> THEN TRUE
  ELSE IF Head(a) # Head(b) THEN Ord(Head(a)) < Ord(Head(b))
  ELSE StrLess(Tail(a), Tail(b))

S_nan == <<"n", "a", "n">>
S_yes == <<"y", "e", "s">>
S_Yes == <<"Y", "e", "s">>
S_blank == <<"(", "b", "l", "a", "n", "k", ")">>

\* str(x) / astype(str) of a nullable text cell: an empty cell is NaN, "nan".
StrOf(c) == IF isna(c) THEN S_nan ELSE Val(c)

----------------------------------------------------------------------------
(* Spreadsheet cells as read by pd.read_excel.  A cell holds a date (day   *)
(* count), a time of day (minutes), a number (hours, in sixtieths), free   *)
(* text that is none of these, or nothing.                                 *)

DateCell(d) == [kind |-> "date", v |-> d]
TimeCell(m) == [kind |-> "time", v |-> m]
NumCell(n) == [kind |-> "num", v |-> n]
TextCell == [kind |-> "text", v |-> 0]
EmptyCell == [kind |-> "empty", v |-> 0]

\* pd.to_datetime(col, errors="coerce") on a date column: NaT unless a date.
to_datetime(c) == IF c.kind = "date" THEN Some(c.v) ELSE Null

\* pd.to_datetime(date.astype(str) + " " + time.astype(str), errors="coerce"):
\* the minute count of the timestamp, NaT unless both parts parse.
to_datetime2(dc, tc) ==
  IF dc.kind = "date" /\ tc.kind = "time" THEN Some(dc.v * 1440 + tc.v) ELSE Null

\* pd.to_numeric(col, errors="coerce")
to_numeric(c) == IF c.kind = "num" THEN Some(c.v) ELSE Null

normalize_aloha(rows) ==
  [i \in 1..Len(rows) |->
     [appt_date |-> to_datetime(rows[i].appt_date),
      dob |-> to_datetime(rows[i].date_of_birth),
      start_dt |-> to_datetime2(rows[i].appt_date, rows[i].start_time),
      end_dt |-> to_datetime2(rows[i].appt_date, rows[i].end_time),
      billing_hours |-> to_numeric(rows[i].billing_hours),
      completed |-> rows[i].completed,
      status |-> rows[i].status,
      insured_id |-> rows[i].insured_id]]

----------------------------------------------------------------------------
(* Calendar: Series.dt.weekday / .dt.year / .dt.month / .dt.day of a day   *)
(* count since 1970-01-01 (a Thursday) in the proleptic Gregorian calendar *)

weekday(d) == (d + 3) % 7

\* The year, month and day of a day count (days since 1970-01-01), by eras of
\* 400 years beginning on 1 March: doe is the day of the era, yoe the year of
\* the era, doy the day of the year and mp the month, both counted from March.
CivilMonth(mp) == IF mp < 10 THEN mp + 3 ELSE mp - 9
CivilYear(era, yoe, mp) == yoe + era * 400 + (IF mp >= 10 THEN 1 ELSE 0)
CivilOfMonth(era, yoe, doy, mp) ==
  [year |-> CivilYear(era, yoe, mp),
   month |-> CivilMonth(mp),
   day |-> doy - (153 * mp + 2) \div 5 + 1]
CivilOfDay(era, yoe, doy) == CivilOfMonth(era, yoe, doy, (5 * doy + 2) \div 153)
CivilOfYear(era, doe, yoe) ==
  CivilOfDay(era, yoe, doe - (365 * yoe + yoe \div 4 - yoe \div 100))
CivilOfEraDay(era, doe) ==
  CivilOfYear(era, doe,
              (doe - doe \div 1460 + doe \div 36524 - doe \div 146096) \div 365)
CivilOfEra(z, era) == CivilOfEraDay(era, z - era * 146097)
CivilOfShifted(z) == CivilOfEra(z, z \div 146097)
Civil(d) == CivilOfShifted(d + 719468)

\* astype(str) of a .dt field.  The field column is int when no date of the
\* column is NaT and float64 as soon as one is: 1 prints "1", 1.0 prints "1.0",
\* NaN prints "nan".
FieldStr(c, isfloat) ==
  IF isna(c) THEN S_nan
  ELSE IF isfloat THEN Digits(Val(c)) \o <<".", "0">>
  ELSE Digits(Val(c))

CivilStr(ymd, isfloat) ==
  FieldStr(Some(ymd.month), isfloat) \o <<"/">> \o FieldStr(Some(ymd.day), isfloat)
    \o <<"/">> \o FieldStr(Some(ymd.year), isfloat)

DateStr(c, isfloat) ==
  IF isna(c)
    THEN FieldStr(Null, isfloat) \o <<"/">> \o FieldStr(Null, isfloat)
           \o <<"/">> \o FieldStr(Null, isfloat)
    ELSE CivilStr(Civil(Val(c)), isfloat)

\* week_start, and the same with the week counted from Sunday instead.
week_start_from_sunday(c) == IF isna(c) THEN Null ELSE Some(Val(c) - (weekday(Val(c)) + 1))
week_start(c) == IF isna(c) THEN Null ELSE Some(Val(c) - weekday(Val(c)))
week_end(ws) == IF isna(ws) THEN Null ELSE Some(Val(ws) + 6)

week_label(ws, isfloat) ==
  DateStr(ws, isfloat) \o <<" ", "-", " ">> \o DateStr(week_end(ws), isfloat)

AnyNaT(rows) == \E i \in 1..Len(rows) : isna(rows[i].appt_date)

add_week_bucket(rows) ==
  [i \in 1..Len(rows) |->
     rows[i] @@ [week |-> Some(week_label(week_start(rows[i].appt_date), AnyNaT(rows)))]]

----------------------------------------------------------------------------
(* Derived fields *)

\* (end_dt - start_dt).dt.total_seconds().div(3600), in sixtieths of an hour;
\* NaN when either timestamp is NaT.
hours_between(s, e) == IF isna(s) \/ isna(e) THEN Null ELSE Some(Val(e) - Val(s))

derive_billing_hours(rows) ==
  [i \in 1..Len(rows) |->
     IF isna(rows[i].billing_hours)
       THEN [rows[i] EXCEPT
               !.billing_hours = hours_between(rows[i].start_dt, rows[i].end_dt)]
       ELSE rows[i]]

B_LastMinute ==
  <<"L", "a", "s", "t", " ", "M", "i", "n", "u", "t", "e", " ", "C", "l",
    "i", "e", "n", "t", " ", "C", "a", "n", "c", "e", "l", "/", "N", "o",
    " ", "S", "h", "o", "w">>
B_Client ==
  <<"C", "l", "i", "e", "n", "t", " ", "C", "a", "n", "c", "e", "l", "l",
    "a", "t", "i", "o", "n">>
B_Staff ==
  <<"S", "t", "a", "f", "f", " ", "C", "a", "n", "c", "e", "l", "l", "a",
    "t", "i", "o", "n">>
B_Other ==
  <<"O", "t", "h", "e", "r", " ", "C", "a", "n", "c", "e", "l", "l", "a",
    "t", "i", "o", "n">>
B_Active ==
  <<"A", "c", "t", "i", "v", "e">>
Buckets == {B_LastMinute, B_Client, B_Staff, B_Other, B_Active}

K_no_show ==
  <<"n", "o", " ", "s", "h", "o", "w">>
K_last_minute ==
  <<"l", "a", "s", "t", " ", "m", "i", "n", "u", "t", "e">>
K_client ==
  <<"c", "l", "i", "e", "n", "t">>
K_staff ==
  <<"s", "t", "a", "f", "f">>
K_cancel ==
  <<"c", "a", "n", "c", "e", "l">>

\* The rules on the lower-cased text, the first that matches deciding;
\* ahead of them, the same rules with "client" tried first.
classify_text_client_first(s) ==
  IF Contains(s, K_client) THEN B_Client
  ELSE IF Contains(s, K_no_show) \/ Contains(s, K_last_minute) THEN B_LastMinute
  ELSE IF Contains(s, K_staff) THEN B_Staff
  ELSE IF Contains(s, K_cancel) THEN B_Other
  ELSE B_Active
classify_text(s) ==
  IF Contains(s, K_no_show) \/ Contains(s, K_last_minute) THEN B_LastMinute
  ELSE IF Contains(s, K_client) THEN B_Client
  ELSE IF Contains(s, K_staff) THEN B_Staff
  ELSE IF Contains(s, K_cancel) THEN B_Other
  ELSE B_Active

classify_cancel_bucket(status) == classify_text(Lower(StrOf(status)))

\* df_aloha["completed"].astype(str).str.strip().str.lower()
\*   .apply(lambda x: "Yes" if x == "yes" else "(blank)")
completed_flag(c) == IF Lower(Strip(StrOf(c))) = S_yes THEN S_Yes ELSE S_blank

add_completed_flag(rows) ==
  [i \in 1..Len(rows) |->
     rows[i] @@ [completed_flag |-> completed_flag(rows[i].completed)]]

----------------------------------------------------------------------------
(* Identity resolution *)

\* The roster with its parsed date of birth: z["dob"] = pd.to_datetime(...).
zoho_rows(zrows) ==
  [j \in 1..Len(zrows) |->
     [medicaid_id |-> zrows[j].medicaid_id,
      dob |-> to_datetime(zrows[j].date_of_birth),
      coord |-> zrows[j].coord]]

\* Key equality of DataFrame.merge: equal values match, and a null key matches
\* a null key (pandas joins NaN to NaN).
KeyMatch(a, b) == a = b

\* The right-hand rows a left row joins to, in roster order.
RECURSIVE MatchesFrom(_, _, _)
MatchesFrom(a, z, j) ==
  IF j > Len(z) THEN <<>>
  ELSE (IF KeyMatch(a.insured_id, z[j].medicaid_id) THEN <<j>> ELSE <<>>)
         \o MatchesFrom(a, z, j + 1)
Matches(a, z) == MatchesFrom(a, z, 1)

\* The output rows of left row i, which joins to the roster rows m: once per
\* roster row, or once with a null coordinator when there is none.  appt and
\* zrow record which input rows an output row comes from (0: none).
JoinedRows(rows, z, i, m) ==
  IF m = <<>>
    THEN <<rows[i] @@ [coord |-> Null, appt |-> i, zrow |-> 0]>>
    ELSE [k \in 1..Len(m) |->
            rows[i] @@ [coord |-> z[m[k]].coord, appt |-> i, zrow |-> m[k]]]

\* df.merge(z[["medicaid id", "case coordinator name"]], left_on="insured id",
\*          right_on="medicaid id", how="left")
RECURSIVE left_merge_from(_, _, _)
left_merge_from(rows, z, i) ==
  IF i > Len(rows) THEN <<>>
  ELSE JoinedRows(rows, z, i, Matches(rows[i], z)) \o left_merge_from(rows, z, i + 1)
left_merge(rows, z) == left_merge_from(rows, z, 1)

\* z[["dob", "case coordinator name"]].dropna().drop_duplicates("dob")
\*   .set_index("dob")["case coordinator name"]: the coordinator of the first
\* roster row with that date of birth among the rows that have both.
HasBoth(z) == {j \in 1..Len(z) : ~isna(z[j].dob) /\ ~isna(z[j].coord)}
FirstWithDob(z, d) ==
  CHOOSE j \in HasBoth(z) :
    /\ Val(z[j].dob) = d
    /\ \A k \in HasBoth(z) : Val(z[k].dob) = d => j <= k
dob_lookup(z) ==
  [d \in {Val(z[j].dob) : j \in HasBoth(z)} |-> Val(z[FirstWithDob(z, d)].coord)]

\* Series.map(lookup): NaN for a null key and for a key the index lacks.
map_lookup(c, lookup) ==
  IF ~isna(c) /\ Val(c) \in DOMAIN lookup THEN Some(lookup[Val(c)]) ELSE Null

\* The rows the fallback fills: those without a coordinator after the join
\* (ahead of it, a fallback that fills every row).
fallback_every_row(row) == TRUE
fallback_missing(row) == isna(row.coord)

fill_missing(merged, lookup) ==
  [i \in 1..Len(merged) |->
     IF fallback_missing(merged[i])
       THEN [merged[i] EXCEPT !.coord = map_lookup(merged[i].dob, lookup)]
       ELSE merged[i]]

merge_with(rows, z) == fill_missing(left_merge(rows, z), dob_lookup(z))

merge_case_coordinator(rows, zrows) == merge_with(rows, zoho_rows(zrows))

\* df["cancel_bucket"] = df["appointment status"].apply(classify_cancel_bucket)
add_cancel_bucket(rows) ==
  [i \in 1..Len(rows) |->
     rows[i] @@ [cancel_bucket |-> classify_cancel_bucket(rows[i].status)]]

----------------------------------------------------------------------------
(* Pivot *)

RECURSIVE SumF(_, _)
SumF(f, S) ==
  IF S = {} THEN 0 ELSE LET x == CHOOSE x \in S : TRUE IN f[x] + SumF(f, S \ {x})

\* Order of two-level keys: by the first string, then by the second.
PairLess(a, b) == StrLess(a[1], b[1]) \/ (a[1] = b[1] /\ StrLess(a[2], b[2]))

RECURSIVE SortPairs(_)
SortPairs(S) ==
  IF S = {} THEN <<>>
  ELSE LET m == CHOOSE x \in S : \A y \in S \ {x} : PairLess(x, y)
       IN  <<m>> \o SortPairs(S \ {m})

StartsWith(s, p) == Len(s) >= Len(p) /\ SubSeq(s, 1, Len(p)) = p

Range(s) == {s[i] : i \in 1..Len(s)}

P_Yes ==
  <<"Y", "e", "s", " ", "|">>
P_blank ==
  <<"(", "b", "l", "a", "n", "k", ")", " ", "|">>
SEP ==
  <<" ", "|", " ">>
X_Client ==
  <<"C", "l", "i", "e", "n", "t", " ", "C", "a", "n", "c", "e", "l", "l",
    "a", "t", "i", "o", "n">>
X_Staff ==
  <<"S", "t", "a", "f", "f", " ", "C", "a", "n", "c", "e", "l", "l", "a",
    "t", "i", "o", "n">>
X_LastMinute ==
  <<"L", "a", "s", "t", " ", "M", "i", "n", "u", "t", "e">>
X_Other ==
  <<"O", "t", "h", "e", "r", " ", "C", "a", "n", "c", "e", "l", "l", "a",
    "t", "i", "o", "n">>
CancelWords == {X_Client, X_Staff, X_LastMinute, X_Other}

C_week ==
  <<"w", "e", "e", "k">>
C_coord ==
  <<"c", "a", "s", "e", " ", "c", "o", "o", "r", "d", "i", "n", "a", "t",
    "o", "r", " ", "n", "a", "m", "e">>
C_YesTotal ==
  <<"Y", "e", "s", " ", "T", "o", "t", "a", "l">>
C_BlankTotal ==
  <<"(", "b", "l", "a", "n", "k", ")", " ", "T", "o", "t", "a", "l">>
C_GrandTotal ==
  <<"G", "r", "a", "n", "d", " ", "T", "o", "t", "a", "l">>
C_Pct ==
  <<"C", "a", "n", "c", "e", "l", "l", "a", "t", "i", "o", "n", " ", "P",
    "e", "r", "c", "e", "n", "t", "a", "g", "e">>

NumPct(v) == [kind |-> "num", v |-> v]
NaN == [kind |-> "nan", v |-> 0]
PosInf == [kind |-> "inf", v |-> 0]
NegInf == [kind |-> "-inf", v |-> 0]

\* n / d to the nearest integer, ties to the even one (d > 0).
RoundQR(q, r, d) ==
  IF 2 * r < d THEN q
  ELSE IF 2 * r > d THEN q + 1
  ELSE IF q % 2 = 0 THEN q ELSE q + 1
RoundDiv(n, d) == RoundQR(n \div d, n % d, d)

\* (c / g * 100).round(2) in float arithmetic, the result in hundredths:
\* 0/0 is NaN and x/0 an infinity, which round() keeps.
percentage(c, g) ==
  IF g = 0 THEN (IF c = 0 THEN NaN ELSE IF c > 0 THEN PosInf ELSE NegInf)
  ELSE IF g > 0 THEN NumPct(RoundDiv(c * 10000, g))
  ELSE NumPct(RoundDiv(-c * 10000, -g))

\* pd.pivot_table groups by its index and column keys and leaves out every row
\* that has a null in one of them (dropna).
pivot_kept(rows) == {i \in 1..Len(rows) : ~isna(rows[i].week) /\ ~isna(rows[i].coord)}

\* Grand Total (ahead of it, a total that leaves the (blank) side out).
grand_total_yes_only(yes, blank) == yes
grand_total(yes, blank) == yes + blank

RowKey(row) == <<Val(row.week), Val(row.coord)>>
ColKey(row) == <<row.completed_flag, row.cancel_bucket>>

\* The (week, coordinator) keys and the (flag, bucket) keys of the rows kept,
\* each sorted; flattened, a column key reads "flag | bucket".
pivot_keys(rows) == SortPairs({RowKey(rows[i]) : i \in pivot_kept(rows)})
pivot_cols(rows) == SortPairs({ColKey(rows[i]) : i \in pivot_kept(rows)})
flat_name(col) == col[1] \o SEP \o col[2]

\* aggfunc="sum" skips NaN; fill_value=0 fills the combinations without rows
hours_or_zero(rows) ==
  [i \in 1..Len(rows) |->
     IF isna(rows[i].billing_hours) THEN 0 ELSE Val(rows[i].billing_hours)]
pivot_cell(rows, key, col) ==
  SumF(hours_or_zero(rows),
       {i \in pivot_kept(rows) : RowKey(rows[i]) = key /\ ColKey(rows[i]) = col})
pivot_cells(rows, cols, key) ==
  [c \in {flat_name(cols[k]) : k \in 1..Len(cols)} |->
     pivot_cell(rows, key, cols[CHOOSE k \in 1..Len(cols) : flat_name(cols[k]) = c])]

with_totals(cells, yes, blank) ==
  cells @@ (C_YesTotal :> yes) @@ (C_BlankTotal :> blank)
    @@ (C_GrandTotal :> grand_total(yes, blank))

cancel_cols(columns) == {c \in columns : \E x \in CancelWords : Contains(c, x)}

with_percentage(key, num) ==
  [week |-> key[1], coord |-> key[2], num |-> num,
   pct |-> percentage(SumF(num, cancel_cols(DOMAIN num)), num[C_GrandTotal])]

row_of_cells(key, cells) ==
  with_percentage(key,
    with_totals(cells,
                SumF(cells, {c \in DOMAIN cells : StartsWith(c, P_Yes)}),
                SumF(cells, {c \in DOMAIN cells : StartsWith(c, P_blank)})))

pivot_table(rows, keys, cols) ==
  [columns |-> <<C_week, C_coord>> \o [k \in 1..Len(cols) |-> flat_name(cols[k])]
                 \o <<C_YesTotal, C_BlankTotal, C_GrandTotal, C_Pct>>,
   rows |-> [k \in 1..Len(keys) |->
               row_of_cells(keys[k], pivot_cells(rows, cols, keys[k]))]]

build_weekly_pivot(rows) == pivot_table(rows, pivot_keys(rows), pivot_cols(rows))

----------------------------------------------------------------------------
(* Renderer: the synthetic grand-total row of pivot_to_two_header_html *)

column_total(p, c) ==
  SumF([k \in 1..Len(p.rows) |-> p.rows[k].num[c]], 1..Len(p.rows))

\* The numeric columns but the percentage: the flag columns and the totals.
numeric_cols(p) == Range(p.columns) \ {C_week, C_coord, C_Pct}

totals_with_percentage(num) ==
  [num |-> num,
   \* (total_cancel / grand_total * 100) if grand_total else 0, as fmt()
   \* prints it with two decimals
   pct |-> IF num[C_GrandTotal] = 0 THEN NumPct(0)
           ELSE percentage(SumF(num, cancel_cols(DOMAIN num)), num[C_GrandTotal])]

html_grand_totals(p) ==
  totals_with_percentage([c \in numeric_cols(p) |-> column_total(p, c)])

----------------------------------------------------------------------------
(* The script.  Streamlit runs it top to bottom after every change of an   *)
(* upload widget: with both files it runs the pipeline and shows the       *)
(* pivot, otherwise it shows the prompt and computes nothing.              *)

Pipeline(af, zf) ==
  /\ df_aloha' = add_completed_flag(
                   derive_billing_hours(add_week_bucket(normalize_aloha(af))))
  /\ df' = add_cancel_bucket(merge_case_coordinator(df_aloha', zf))
  /\ pivot_df' = build_weekly_pivot(df')
  /\ grand_totals' = html_grand_totals(pivot_df')
  /\ screen' = "pivot"

Prompt ==
  /\ df_aloha' = <<>>
  /\ df' = <<>>
  /\ pivot_df' = <<>>
  /\ grand_totals' = <<>>
  /\ screen' = "info"

Script(af, zf) ==
  IF ~isna(af) /\ ~isna(zf) THEN Pipeline(Val(af), Val(zf)) ELSE Prompt

Init ==
  /\ aloha_file = Null
  /\ zoho_file = Null
  /\ df_aloha = <<>>
  /\ df = <<>>
  /\ pivot_df = <<>>
  /\ grand_totals = <<>>
  /\ screen = "info"

UploadAloha(f) ==
  /\ isna(aloha_file)
  /\ aloha_file' = Some(f)
  /\ UNCHANGED zoho_file
  /\ Script(aloha_file', zoho_file)

UploadZoho(f) ==
  /\ isna(zoho_file)
  /\ zoho_file' = Some(f)
  /\ UNCHANGED aloha_file
  /\ Script(aloha_file, zoho_file')

ClearAloha ==
  /\ ~isna(aloha_file)
  /\ aloha_file' = Null
  /\ UNCHANGED zoho_file
  /\ Script(aloha_file', zoho_file)

ClearZoho ==
  /\ ~isna(zoho_file)
  /\ zoho_file' = Null
  /\ UNCHANGED aloha_file
  /\ Script(aloha_file, zoho_file')

----------------------------------------------------------------------------
(* Workbooks the user uploads *)

Ann ==
  <<"A", "n", "n">>
Bob ==
  <<"B", "o", "b">>

\* 2024-01-01, a Monday: 54 years and 13 leap days after 1970-01-01.
Jan1 == 54 * 365 + 13
\* 1990-01-01, a date of birth
Dob1 == 20 * 365 + 5

BaseAppt ==
  [appt_date |-> DateCell(Jan1), start_time |-> TimeCell(540),
   end_time |-> TimeCell(630), billing_hours |-> NumCell(150),
   completed |-> Some(S_Yes), status |-> Null, insured_id |-> Some(1),
   date_of_birth |-> DateCell(Dob1)]

BaseRoster ==
  <<[medicaid_id |-> Some(1), date_of_birth |-> DateCell(Dob1), coord |-> Some(Ann)],
    [medicaid_id |-> Some(2), date_of_birth |-> EmptyCell, coord |-> Some(Bob)]>>

SeqsUpTo(S, n) == UNION {[1..k -> S] : k \in 0..n}
NonEmptySeqsUpTo(S, n) == UNION {[1..k -> S] : k \in 1..n}

RECURSIVE Concat(_)
Concat(ss) == IF ss = <<>> THEN <<>> ELSE Head(ss) \o Concat(Tail(ss))

(* Statuses: free text put together from up to MaxFrags fragments, or empty *)
MaxFrags == 3
F_Client ==
  <<"C", "l", "i", "e", "n", "t", " ">>
F_no ==
  <<"n", "o">>
F_dash_show ==
  <<"-", "s", "h", "o", "w">>
F_show ==
  <<" ", "s", "h", "o", "w">>
F_Cancel ==
  <<"C", "a", "n", "c", "e", "l">>
F_Staff ==
  <<"S", "t", "a", "f", "f", " ">>
F_LAST_MINUTE ==
  <<"L", "A", "S", "T", " ", "M", "I", "N", "U", "T", "E", " ">>
F_Completed ==
  <<"C", "o", "m", "p", "l", "e", "t", "e", "d">>
Fragments ==
  {F_Client, F_no, F_dash_show, F_show, F_Cancel, F_Staff, F_LAST_MINUTE, F_Completed}
Statuses == {Null} \cup {Some(Concat(fs)) : fs \in SeqsUpTo(Fragments, MaxFrags)}

ClassifyAloha == {<<[BaseAppt EXCEPT !.status = s]>> : s \in Statuses}
ClassifyZoho == {BaseRoster}

NextClassify ==
  \/ \E f \in ClassifyAloha : UploadAloha(f)
  \/ \E f \in ClassifyZoho : UploadZoho(f)
  \/ ClearAloha
  \/ ClearZoho

SpecClassify == Init /\ [][NextClassify]_vars

(* Appointment dates: WindowLen days on either side of 2024-01-01 and of   *)
(* 2024-03-01 (year end, leap day), or a cell that is no date.  Every      *)
(* workbook has two appointments.                                          *)
WindowLen == 12
Mar1 == Jan1 + 31 + 29
WeekDays ==
  ((Jan1 - WindowLen)..(Jan1 + WindowLen - 1))
    \cup ((Mar1 - WindowLen)..(Mar1 + WindowLen - 1))
WeekCells == {DateCell(d) : d \in WeekDays} \cup {TextCell}

WeekAloha ==
  {<<[BaseAppt EXCEPT !.appt_date = c1], [BaseAppt EXCEPT !.appt_date = c2]>> :
     c1 \in WeekCells, c2 \in WeekCells}
WeekZoho == {BaseRoster}

NextWeek ==
  \/ \E f \in WeekAloha : UploadAloha(f)
  \/ \E f \in WeekZoho : UploadZoho(f)
  \/ ClearAloha
  \/ ClearZoho

SpecWeek == Init /\ [][NextWeek]_vars

(* Rosters of up to MaxRoster rows, each with or without an identifier, a  *)
(* date of birth and a coordinator; one appointment, with or without an    *)
(* identifier and a date of birth.                                         *)
MaxRoster == 2
RosterRows ==
  [medicaid_id : {Some(1), Null},
   date_of_birth : {DateCell(Dob1), EmptyCell},
   coord : {Some(Ann), Some(Bob), Null}]

MergeAloha ==
  {<<[BaseAppt EXCEPT !.insured_id = id, !.date_of_birth = b]>> :
     id \in {Some(1), Null}, b \in {DateCell(Dob1), EmptyCell}}
MergeZoho == SeqsUpTo(RosterRows, MaxRoster)

NextMerge ==
  \/ \E f \in MergeAloha : UploadAloha(f)
  \/ \E f \in MergeZoho : UploadZoho(f)
  \/ ClearAloha
  \/ ClearZoho

SpecMerge == Init /\ [][NextMerge]_vars

(* Workbooks of up to MaxAppts appointments in one of two weeks, completed *)
(* or client-cancelled, with the hours given (0 or 1) or left empty and    *)
(* derived from 10:00-11:30, from 10:00-09:30, or from a start time that   *)
(* is no time.                                                             *)
MaxAppts == 2
S_ClientCancel ==
  <<"C", "l", "i", "e", "n", "t", " ", "C", "a", "n", "c", "e", "l">>
HoursCases ==
  {[billing_hours |-> NumCell(0), start_time |-> TimeCell(600), end_time |-> TimeCell(690)],
   [billing_hours |-> NumCell(60), start_time |-> TimeCell(600), end_time |-> TimeCell(690)],
   [billing_hours |-> EmptyCell, start_time |-> TimeCell(600), end_time |-> TimeCell(690)],
   [billing_hours |-> EmptyCell, start_time |-> TimeCell(600), end_time |-> TimeCell(570)],
   [billing_hours |-> TextCell, start_time |-> TextCell, end_time |-> TimeCell(690)]}
Dispositions ==
  {[completed |-> Some(S_Yes), status |-> Null],
   [completed |-> Null, status |-> Some(S_ClientCancel)]}
Slots ==
  {[appt_date |-> DateCell(Jan1 + 2), insured_id |-> Some(1)],
   [appt_date |-> DateCell(Jan1 + 9), insured_id |-> Some(2)]}
PivotAppts ==
  {h @@ d @@ s @@ [date_of_birth |-> DateCell(Dob1)] :
     h \in HoursCases, d \in Dispositions, s \in Slots}

PivotAloha == NonEmptySeqsUpTo(PivotAppts, MaxAppts)
PivotZoho == {BaseRoster}

NextPivot ==
  \/ \E f \in PivotAloha : UploadAloha(f)
  \/ \E f \in PivotZoho : UploadZoho(f)
  \/ ClearAloha
  \/ ClearZoho

SpecPivot == Init /\ [][NextPivot]_vars

----------------------------------------------------------------------------
(* Properties *)

Shown == screen = "pivot"
Rows(t) == {t[i] : i \in 1..Len(t)}
Roster == zoho_rows(Val(zoho_file))

C_YesDiff ==
  <<"Y", "e", "s", " ", "T", "o", "t", "a", "l", " ", "D", "i", "f", "f",
    "e", "r", "e", "n", "c", "e">>
C_GrandDiff ==
  <<"G", "r", "a", "n", "d", " ", "T", "o", "t", "a", "l", " ", "D", "i",
    "f", "f", "e", "r", "e", "n", "c", "e">>
C_CancelDiff ==
  <<"C", "a", "n", "c", "e", "l", "l", "a", "t", "i", "o", "n", " ", "T",
    "o", "t", "a", "l", " ", "D", "i", "f", "f", "e", "r", "e", "n", "c",
    "e">>
S_ClientNoShow ==
  <<"C", "l", "i", "e", "n", "t", " ", "n", "o", "-", "s", "h", "o", "w">>

\* The hours of the four non-Active buckets in a pivot row.
CancellationTotal(r) ==
  SumF(r.num, {c \in DOMAIN r.num : \E b \in Buckets \ {B_Active} :
                 c = P_Yes \o <<" ">> \o b \/ c = P_blank \o <<" ">> \o b})

\* C1: every pivot row carries a difference column for Yes Total, Grand Total
\* and Cancellation Total; it is null in the coordinator's first week and
\* otherwise the row's value minus the value of the coordinator's previous week.
C1_DifferenceColumns ==
  Shown =>
    /\ {C_YesDiff, C_GrandDiff, C_CancelDiff} \subseteq Range(pivot_df.columns)
    /\ \A r \in Rows(pivot_df.rows) :
         LET before == {q \in Rows(pivot_df.rows) :
                          q.coord = r.coord /\ StrLess(q.week, r.week)}
             prev == CHOOSE q \in before :
                       \A o \in before \ {q} : StrLess(o.week, q.week)
             diff(c, v(_)) == r.num[c] = IF before = {} THEN Null
                                          ELSE Some(v(r) - v(prev))
             yes(x) == x.num[C_YesTotal]
             grand(x) == x.num[C_GrandTotal]
         IN  /\ diff(C_YesDiff, yes)
             /\ diff(C_GrandDiff, grand)
             /\ diff(C_CancelDiff, CancellationTotal)

\* C2: an appointment that no roster row matches, by identifier or by date of
\* birth, keeps a null coordinator and has a pivot row for its week under a
\* blank coordinator.
C2_OrphanInPivot ==
  Shown =>
    \A o \in Rows(df) :
      (/\ ~\E j \in 1..Len(Roster) : Roster[j].medicaid_id = o.insured_id
       /\ ~\E j \in 1..Len(Roster) : ~isna(o.dob) /\ Roster[j].dob = o.dob)
      => /\ isna(o.coord)
         /\ \E r \in Rows(pivot_df.rows) :
              r.week = Val(o.week) /\ r.coord \in {<<>>, S_nan}

\* C3: a pivot row whose Grand Total is 0 has Cancellation Percentage 0.
C3_ZeroGrandTotal ==
  Shown =>
    \A r \in Rows(pivot_df.rows) : r.num[C_GrandTotal] = 0 => r.pct = NumPct(0)

\* C4: every status, the empty one included, gets one of the five buckets, the
\* first of the rules that matches its lower-cased text deciding: "no show" or
\* "last minute", then "client", then "staff", then "cancel", else Active.
C4_ClassifyPriority ==
  Shown =>
    \A o \in Rows(df) :
      LET s == Lower(StrOf(o.status))
          r1 == Contains(s, K_no_show) \/ Contains(s, K_last_minute)
          r2 == Contains(s, K_client)
          r3 == Contains(s, K_staff)
          r4 == Contains(s, K_cancel)
      IN  /\ o.cancel_bucket \in Buckets
          /\ r1 => o.cancel_bucket = B_LastMinute
          /\ ~r1 /\ r2 => o.cancel_bucket = B_Client
          /\ ~r1 /\ ~r2 /\ r3 => o.cancel_bucket = B_Staff
          /\ ~r1 /\ ~r2 /\ ~r3 /\ r4 => o.cancel_bucket = B_Other
          /\ ~r1 /\ ~r2 /\ ~r3 /\ ~r4 => o.cancel_bucket = B_Active

\* A status that names the client and a cancellation, and neither a no-show
\* nor a last-minute one, was classified as Client Cancellation.
C4_Witness ==
  /\ Shown
  /\ \E o \in Rows(df) :
       LET s == Lower(StrOf(o.status))
       IN  /\ Contains(s, K_client)
           /\ Contains(s, K_cancel)
           /\ ~Contains(s, K_no_show)
           /\ ~Contains(s, K_last_minute)
           /\ o.cancel_bucket = B_Client

\* C5: the status "Client no-show" is Last Minute Client Cancel/No Show.
C5_ClientNoShowHyphen ==
  Shown =>
    \A o \in Rows(df) :
      o.status = Some(S_ClientNoShow) => o.cancel_bucket = B_LastMinute

\* C6 as stated: an output row joined to a roster row by identifier carries
\* that roster row's coordinator, whatever its date of birth matches.
C6_PrimaryAlwaysWins ==
  Shown =>
    \A o \in Rows(df) :
      o.zrow # 0 /\ ~isna(o.insured_id) => o.coord = Roster[o.zrow].coord

\* C6 as amended: an output row joined by identifier to a roster row that names
\* a coordinator carries that coordinator, whatever its date of birth matches;
\* the fallback fills only rows whose coordinator is null after the join.
C6_PrimaryWinsWhenNamed ==
  Shown =>
    \A o \in Rows(df) :
      o.zrow # 0 /\ ~isna(Roster[o.zrow].coord) => o.coord = Roster[o.zrow].coord

\* A row joined by identifier whose date of birth leads to another coordinator.
C6_Witness ==
  /\ Shown
  /\ \E o \in Rows(df) :
       /\ o.zrow # 0
       /\ ~isna(o.insured_id)
       /\ ~isna(Roster[o.zrow].coord)
       /\ ~isna(map_lookup(o.dob, dob_lookup(Roster)))
       /\ map_lookup(o.dob, dob_lookup(Roster)) # Roster[o.zrow].coord
       /\ o.coord = Roster[o.zrow].coord

\* C7: in a pivot row with Grand Total > 0 the cancelled hours are between 0
\* and Grand Total, and Cancellation Percentage is between 0 and 100.
C7_PercentageRange ==
  Shown =>
    \A r \in Rows(pivot_df.rows) :
      r.num[C_GrandTotal] > 0 =>
        /\ CancellationTotal(r) >= 0
        /\ CancellationTotal(r) <= r.num[C_GrandTotal]
        /\ r.pct.kind = "num"
        /\ r.pct.v >= 0
        /\ r.pct.v <= 10000

MondayOf(d) == CHOOSE m \in (d - 6)..d : (m - Jan1) % 7 = 0

\* C9: the week label of an appointment with a valid date names the Monday on
\* or before the date and the Sunday six days after that Monday, and two
\* appointments of one Monday-to-Sunday week have the same label.
C9_WeekLabel ==
  Shown =>
    /\ \A o \in Rows(df) :
         ~isna(o.appt_date) =>
           \E f \in BOOLEAN :
             o.week = Some(DateStr(Some(MondayOf(Val(o.appt_date))), f)
                             \o <<" ", "-", " ">>
                             \o DateStr(Some(MondayOf(Val(o.appt_date)) + 6), f))
    /\ \A o1, o2 \in Rows(df) :
         /\ ~isna(o1.appt_date)
         /\ ~isna(o2.appt_date)
         /\ MondayOf(Val(o1.appt_date)) = MondayOf(Val(o2.appt_date))
         => o1.week = o2.week

\* Two appointments of the week of the leap day, one in February and one in
\* March.
C9_Witness ==
  /\ Shown
  /\ \E o1, o2 \in Rows(df) :
       /\ ~isna(o1.appt_date)
       /\ ~isna(o2.appt_date)
       /\ Val(o1.appt_date) < Mar1
       /\ Val(o2.appt_date) >= Mar1
       /\ Val(o2.appt_date) - Val(o1.appt_date) < 7
       /\ o1.week = o2.week

\* C10: identity resolution returns one row for each appointment.
C10_OneRowPerAppointment ==
  Shown =>
    /\ Len(df) = Len(df_aloha)
    /\ \A i \in 1..Len(df_aloha) :
         Cardinality({k \in 1..Len(df) : df[k].appt = i}) = 1

====
